---- MODULE Spec2Model ----
(***************************************************************************)
(* Screen-share plugin of flutter_sfu_relay: the method dispatcher, the    *)
(* capture-exclusion controller and the overlay controller, in their       *)
(* Windows (screen_share_plugin.cpp) and Linux (screen_share_plugin.cc)    *)
(* implementations.                                                        *)
(*                                                                         *)
(* Every handler is a pure operator from the world before the call (and    *)
(* the outcomes of the OS calls it makes) to the world after it; an action *)
(* applies one handler.  `obs` records what the last handler did (its      *)
(* responses, outbound notifications, windows created and destroyed).      *)
(***************************************************************************)
EXTENDS Integers, Sequences, FiniteSets

VARIABLES platform, phase, plugin, overlay, gtk, os, obs, ghost

vars == <<platform, phase, plugin, overlay, gtk, os, obs, ghost>>

(* ---------------------------- bounds ----------------------------------- *)
\* number of top-level windows GetMainWindow can come back with
MaxHwnd == 2
\* the primary monitor's origin ranges over 0..MaxOrigin in each direction
MaxOrigin == 1
\* the screen's width and height range over cornerSize..cornerSize + MaxExtent
MaxExtent == 2
\* successful setExcludeFromCapture(true) calls in a row are counted up to MaxRun
MaxRun == 3

(* ------------------------- program constants --------------------------- *)
WS_EX_LAYERED == 524288
WS_EX_TOPMOST == 8
WDA_NONE == 0
WDA_EXCLUDEFROMCAPTURE == 17
NumCorners == 4
cornerSize == 60

Hwnds == 1..MaxHwnd
Corners == 0..(NumCorners - 1)

\* extended styles a main window starts with: plain, layered, layered+topmost
InitialExStyles == {WS_EX_TOPMOST, WS_EX_LAYERED, WS_EX_LAYERED + WS_EX_TOPMOST}

HasLayered(exStyle) == (exStyle \div WS_EX_LAYERED) % 2 = 1

\* exStyle & ~WS_EX_LAYERED
StripLayered(exStyle) == IF HasLayered(exStyle) THEN exStyle - WS_EX_LAYERED ELSE exStyle

(* ------------------------- method calls -------------------------------- *)
MethodNames == {"isSupported", "setExcludeFromCapture", "showOverlay",
                "hideOverlay", "minimizeWindow", "restoreWindow", "unknownMethod"}

\* shapes of method_call.arguments(): no map, a map without "exclude",
\* a map whose "exclude" is a bool, an int or a string
NoArgs == [isMap |-> FALSE, hasExclude |-> FALSE, type |-> "null", value |-> FALSE]
EmptyMap == [isMap |-> TRUE, hasExclude |-> FALSE, type |-> "null", value |-> FALSE]
ExcludeArg(b) == [isMap |-> TRUE, hasExclude |-> TRUE, type |-> "bool", value |-> b]
IntArg == [isMap |-> TRUE, hasExclude |-> TRUE, type |-> "int", value |-> FALSE]
StringArg == [isMap |-> TRUE, hasExclude |-> TRUE, type |-> "string", value |-> FALSE]
ArgValues == {NoArgs, EmptyMap, ExcludeArg(TRUE), ExcludeArg(FALSE), IntArg, StringArg}

\* argument shapes tried on the methods that never read their arguments
IgnoredArgValues == {NoArgs, IntArg}

CarriesBoolExclude(args) == args.isMap /\ args.hasExclude /\ args.type = "bool"

Success(v) == [kind |-> "success", code |-> "", value |-> v]
Error(c) == [kind |-> "error", code |-> c, value |-> FALSE]
NotImplemented == [kind |-> "notImplemented", code |-> "", value |-> FALSE]

\* channel_->InvokeMethod("onStopSharingRequested", nullptr), with the held
\* window set at the moment of the emission
StopNotification(held) == [method |-> "onStopSharingRequested", payload |-> "null", held |-> held]

(* --------------------------- the world --------------------------------- *)
World == [platform |-> platform, phase |-> phase, plugin |-> plugin,
          overlay |-> overlay, gtk |-> gtk, os |-> os, obs |-> obs, ghost |-> ghost]

SetWorld(w) ==
    /\ platform' = w.platform
    /\ phase' = w.phase
    /\ plugin' = w.plugin
    /\ overlay' = w.overlay
    /\ gtk' = w.gtk
    /\ os' = w.os
    /\ obs' = w.obs
    /\ ghost' = w.ghost

\* the held window set: the toolbar handle and the border handles by corner
Range(s) == {s[i] : i \in 1..Len(s)}

HeldOf(w) ==
    IF w.platform = "windows"
    THEN (IF w.overlay.toolbar_window_ THEN {<<"toolbar", 0>>} ELSE {})
         \cup {<<"border", i>> : i \in Range(w.overlay.border_windows_)}
    ELSE (IF w.gtk.g_toolbar_window THEN {<<"toolbar", 0>>} ELSE {})
         \cup {<<"border", i>> : i \in {c \in Corners : w.gtk.g_border_windows[c]}}

Held == HeldOf(World)

AllFive == {<<"toolbar", 0>>} \cup {<<"border", i>> : i \in Corners}

\* graphics objects the overlay controller keeps for its whole life
PersistentGdi(ov) ==
    (IF ov.toolbar_brush_ THEN {"toolbar_brush_"} ELSE {})
    \cup (IF ov.green_brush_ THEN {"green_brush_"} ELSE {})
    \cup (IF ov.label_font_ THEN {"label_font_"} ELSE {})
    \cup (IF ov.button_font_ THEN {"button_font_"} ELSE {})

\* no run of successful setExcludeFromCapture(true) calls
NoRun == [hwnd |-> 0, style |-> 0, n |-> 0]

\* obs at the start of a handler
BeginOp(w, op, args, env) ==
    [w EXCEPT !.ghost.ended = NoRun,
              !.obs = [op |-> op, args |-> args,
                       prev |-> [op |-> w.obs.op,
                                 exclude |-> CarriesBoolExclude(w.obs.args) /\ w.obs.args.value],
                       mainWin |-> env.mainWin, affOk |-> env.affOk,
                       hwnd |-> 0, preStyle |-> 0, preOrig |-> w.plugin.original_ex_style_,
                       responses |-> <<>>, outbound |-> <<>>,
                       created |-> 0, destroyed |-> 0, failed |-> 0,
                       gdiCreated |-> 0, gdiDeleted |-> 0]]

Respond(w, r) == [w EXCEPT !.obs.responses = Append(@, r)]

(* ===================== Windows: ScreenShareOverlay ===================== *)

\* CreateGdi / DeleteObject of one transient object inside a paint handler
GdiCreate(w, name) ==
    [w EXCEPT !.os.gdiLive = @ \cup {name}, !.obs.gdiCreated = @ + 1]

\* os.gdiBadDelete: DeleteObject was called on an object that is not live
GdiDelete(w, name) ==
    [w EXCEPT !.os.gdiLive = @ \ {name},
              !.os.gdiBadDelete = @ \/ (name \notin w.os.gdiLive),
              !.obs.gdiDeleted = @ + 1]

\* BorderWndProc, WM_PAINT: CreatePen ... DeleteObject(greenPen)
BorderWndProc_WM_PAINT(w) == GdiDelete(GdiCreate(w, "greenPen"), "greenPen")

\* ToolbarWndProc, WM_DRAWITEM: redBrush and rgn created and deleted
ToolbarWndProc_WM_DRAWITEM(w) ==
    GdiDelete(GdiDelete(GdiCreate(GdiCreate(w, "redBrush"), "rgn"), "rgn"), "redBrush")

\* ToolbarWndProc, WM_PAINT: draws with the controller's brushes, allocates nothing
ToolbarWndProc_WM_PAINT(w) == w

CreateToolbarWindow_NoGuard(w, ok) ==
    IF ok
    THEN ToolbarWndProc_WM_PAINT(
           [w EXCEPT !.overlay.toolbar_window_ = TRUE,
                     !.os.toolbarLive = @ + 1,
                     !.obs.created = @ + 1])
    ELSE [w EXCEPT !.obs.failed = @ + 1, !.ghost.createFailed = TRUE]

\* ok: whether CreateWindowExW returns a window
CreateToolbarWindow(w, ok) ==
    IF w.overlay.toolbar_window_
    THEN w
    ELSE IF ok
         THEN ToolbarWndProc_WM_PAINT(
                [w EXCEPT !.overlay.toolbar_window_ = TRUE,
                          !.os.toolbarLive = @ + 1,
                          !.obs.created = @ + 1])
         ELSE [w EXCEPT !.obs.failed = @ + 1, !.ghost.createFailed = TRUE]

WinCorners_SwappedOrder(screen) ==
    << <<0, 0>>,
       <<0, screen.height - cornerSize>>,
       <<screen.width - cornerSize, 0>>,
       <<screen.width - cornerSize, screen.height - cornerSize>> >>

\* corners[]: top-left, top-right, bottom-left, bottom-right, from
\* GetSystemMetrics(SM_CXSCREEN) and GetSystemMetrics(SM_CYSCREEN)
WinCorners(screen) ==
    << <<0, 0>>,
       <<screen.width - cornerSize, 0>>,
       <<0, screen.height - cornerSize>>,
       <<screen.width - cornerSize, screen.height - cornerSize>> >>

CreateBorderWindow_PushAlways(w, i, ok) ==
    IF ok
    THEN BorderWndProc_WM_PAINT(
           [w EXCEPT !.overlay.border_windows_ = Append(@, i),
                     !.os.borderLive[i] = @ + 1,
                     !.os.borderPos[i] = WinCorners(w.os.screen)[i + 1],
                     !.obs.created = @ + 1])
    ELSE [w EXCEPT !.overlay.border_windows_ = Append(@, i),
                   !.obs.failed = @ + 1, !.ghost.createFailed = TRUE]

\* one iteration of the loop of CreateBorderWindows
CreateBorderWindow(w, i, ok) ==
    IF ok
    THEN BorderWndProc_WM_PAINT(
           [w EXCEPT !.overlay.border_windows_ = Append(@, i),
                     !.os.borderLive[i] = @ + 1,
                     !.os.borderPos[i] = WinCorners(w.os.screen)[i + 1],
                     !.obs.created = @ + 1])
    ELSE [w EXCEPT !.obs.failed = @ + 1, !.ghost.createFailed = TRUE]

CreateBorderWindows_ThreeCorners(w, okB) ==
    IF w.overlay.border_windows_ # <<>>
    THEN w
    ELSE CreateBorderWindow(
           CreateBorderWindow(
             CreateBorderWindow(w, 0, okB[0]), 1, okB[1]), 2, okB[2])

CreateBorderWindows(w, okB) ==
    IF w.overlay.border_windows_ # <<>>
    THEN w
    ELSE CreateBorderWindow(
           CreateBorderWindow(
             CreateBorderWindow(
               CreateBorderWindow(w, 0, okB[0]), 1, okB[1]), 2, okB[2]), 3, okB[3])

Show(w, okT, okB) == CreateBorderWindows(CreateToolbarWindow(w, okT), okB)

\* DestroyWindow on each held border handle
RECURSIVE DestroyBorders(_, _)
DestroyBorders(w, handles) ==
    IF handles = <<>>
    THEN w
    ELSE DestroyBorders([w EXCEPT !.os.borderLive[Head(handles)] = @ - 1,
                                  !.os.borderPos[Head(handles)] = <<>>,
                                  !.obs.destroyed = @ + 1],
                        Tail(handles))

HideToolbar_Unchecked(w) ==
    [w EXCEPT !.os.toolbarLive = @ - 1,
              !.obs.destroyed = @ + 1,
              !.overlay.toolbar_window_ = FALSE]

\* if (toolbar_window_) { DestroyWindow(toolbar_window_); toolbar_window_ = nullptr; }
HideToolbar(w) ==
    IF w.overlay.toolbar_window_
    THEN [w EXCEPT !.os.toolbarLive = @ - 1,
                   !.obs.destroyed = @ + 1,
                   !.overlay.toolbar_window_ = FALSE]
    ELSE w

Hide_KeepsBorderHandles(w) ==
    [DestroyBorders(HideToolbar(w), w.overlay.border_windows_)
       EXCEPT !.ghost.createFailed = FALSE]

\* ToolbarWndProc, WM_COMMAND with ID_STOP_BUTTON
NotifyStop(w) ==
    [w EXCEPT !.obs.outbound = Append(@, StopNotification(HeldOf(w)))]

Hide_ForgetsBorders(w) ==
    [HideToolbar(w) EXCEPT !.overlay.border_windows_ = <<>>,
                           !.ghost.createFailed = FALSE]

Hide_Notifies(w) ==
    NotifyStop([DestroyBorders(HideToolbar(w), w.overlay.border_windows_)
                  EXCEPT !.overlay.border_windows_ = <<>>,
                         !.ghost.createFailed = FALSE])

\* ghost.createFailed: whether a window creation has failed since the last Hide
Hide(w) ==
    [DestroyBorders(HideToolbar(w), w.overlay.border_windows_)
       EXCEPT !.overlay.border_windows_ = <<>>,
              !.ghost.createFailed = FALSE]

ToolbarWndProc_WM_COMMAND_NotifyFirst(w) ==
    IF w.overlay.instance_ THEN Hide(NotifyStop(w)) ELSE w

ToolbarWndProc_WM_COMMAND(w) ==
    IF w.overlay.instance_
    THEN NotifyStop(Hide(w))   \* channel_ is never null: it is channel_.get()
    ELSE w

\* ~ScreenShareOverlay
\* if (member) DeleteObject(member);
DeleteMember(w, name, present) ==
    IF present THEN GdiDelete(w, name) ELSE w

OverlayDestructor_LeaksFonts(w) ==
    LET h == Hide(w)
        d1 == DeleteMember(h, "toolbar_brush_", h.overlay.toolbar_brush_)
        d2 == DeleteMember(d1, "green_brush_", d1.overlay.green_brush_)
    IN [d2 EXCEPT !.overlay.classes_registered_ = FALSE,
                  !.overlay.instance_ = FALSE,
                  !.phase = "destroyed"]

OverlayDestructor(w) ==
    LET h == Hide(w)
        d1 == DeleteMember(h, "toolbar_brush_", h.overlay.toolbar_brush_)
        d2 == DeleteMember(d1, "green_brush_", d1.overlay.green_brush_)
        d3 == DeleteMember(d2, "label_font_", d2.overlay.label_font_)
        d4 == DeleteMember(d3, "button_font_", d3.overlay.button_font_)
    IN [d4 EXCEPT !.overlay.classes_registered_ = FALSE,
                  !.overlay.instance_ = FALSE,
                  !.phase = "destroyed"]

(* ========================= Linux: GTK globals ========================== *)

\* gtk_window_new returns a window or aborts the process; it has no failure return
create_toolbar_window(w) ==
    IF w.gtk.g_toolbar_window
    THEN w
    ELSE [w EXCEPT !.gtk.g_toolbar_window = TRUE,
                   !.os.toolbarLive = @ + 1,
                   !.obs.created = @ + 1]

\* positions[4][2], from the primary monitor's geometry
LinuxPositions(geometry) ==
    << <<geometry.x, geometry.y>>,
       <<geometry.x + geometry.width - cornerSize, geometry.y>>,
       <<geometry.x, geometry.y + geometry.height - cornerSize>>,
       <<geometry.x + geometry.width - cornerSize,
         geometry.y + geometry.height - cornerSize>> >>

create_border_window(w, i) ==
    IF w.gtk.g_border_windows[i]
    THEN w
    ELSE [w EXCEPT !.gtk.g_border_windows[i] = TRUE,
                   !.os.borderLive[i] = @ + 1,
                   !.os.borderPos[i] = LinuxPositions(w.os.screen)[i + 1],
                   !.obs.created = @ + 1]

create_border_windows(w) ==
    create_border_window(
      create_border_window(
        create_border_window(
          create_border_window(w, 0), 1), 2), 3)

destroy_border_window(w, i) ==
    IF w.gtk.g_border_windows[i]
    THEN [w EXCEPT !.gtk.g_border_windows[i] = FALSE,
                   !.os.borderLive[i] = @ - 1,
                   !.os.borderPos[i] = <<>>,
                   !.obs.destroyed = @ + 1]
    ELSE w

destroy_toolbar_window(w) ==
    IF w.gtk.g_toolbar_window
    THEN [w EXCEPT !.gtk.g_toolbar_window = FALSE,
                   !.os.toolbarLive = @ - 1,
                   !.obs.destroyed = @ + 1]
    ELSE w

destroy_overlay_windows(w) ==
    destroy_border_window(
      destroy_border_window(
        destroy_border_window(
          destroy_border_window(destroy_toolbar_window(w), 0), 1), 2), 3)

on_stop_button_clicked(w) ==
    LET d == destroy_overlay_windows(w)
    IN IF d.gtk.g_channel THEN NotifyStop(d) ELSE d

(* ===================== Windows: ScreenSharePlugin ====================== *)

\* GetMainWindow: the view's top-level window, else GetActiveWindow(); which
\* window (or none, 0) comes back is the environment's choice, env.mainWin
GetMainWindow(w, env) == env.mainWin

SetWindowLongPtr(w, hwnd, exStyle) == [w EXCEPT !.os.exStyle[hwnd] = exStyle]

\* SetWindowDisplayAffinity succeeds or fails as the OS decides (env.affOk)
SetWindowDisplayAffinity(w, hwnd, affinity, ok) ==
    IF ok THEN [w EXCEPT !.os.affinity[hwnd] = affinity] ELSE w

SaveAndStrip_AlwaysSave(w, hwnd, exclude, exStyle) ==
    IF exclude
    THEN SetWindowLongPtr([w EXCEPT !.plugin.original_ex_style_ = exStyle],
                          hwnd, StripLayered(exStyle))
    ELSE w

\* lines 156-167: save the style and strip WS_EX_LAYERED
SaveAndStrip(w, hwnd, exclude, exStyle) ==
    IF exclude /\ HasLayered(exStyle)
    THEN SetWindowLongPtr([w EXCEPT !.plugin.original_ex_style_ = exStyle],
                          hwnd, StripLayered(exStyle))
    ELSE w

AfterFailure_NoRollback(w, hwnd, exclude, hasLayered) == w

\* lines 172-187: the display-affinity call failed
AfterFailure(w, hwnd, exclude, hasLayered) ==
    IF exclude /\ hasLayered /\ w.plugin.original_ex_style_ # 0
    THEN SetWindowLongPtr(w, hwnd, w.plugin.original_ex_style_)
    ELSE w

AfterSuccess_NoRestore(w, hwnd, exclude) == w

\* lines 188-202: the display-affinity call succeeded
AfterSuccess(w, hwnd, exclude) ==
    IF ~exclude /\ w.plugin.original_ex_style_ # 0
       /\ HasLayered(w.plugin.original_ex_style_)
    THEN [SetWindowLongPtr(w, hwnd, w.plugin.original_ex_style_)
            EXCEPT !.plugin.original_ex_style_ = 0]
    ELSE w

SetExcludeFromCapture(w, exclude, env) ==
    LET hwnd == GetMainWindow(w, env)
    IN IF hwnd = 0
       THEN w
       ELSE LET exStyle == w.os.exStyle[hwnd]
                hasLayered == HasLayered(exStyle)
                w0 == [w EXCEPT !.obs.hwnd = hwnd, !.obs.preStyle = exStyle]
                w1 == SaveAndStrip(w0, hwnd, exclude, exStyle)
                affinity == IF exclude THEN WDA_EXCLUDEFROMCAPTURE ELSE WDA_NONE
                w2 == SetWindowDisplayAffinity(w1, hwnd, affinity, env.affOk)
            IN IF ~env.affOk
               THEN AfterFailure(w2, hwnd, exclude, hasLayered)
               ELSE AfterSuccess(w2, hwnd, exclude)

\* std::get<bool> on a value of another type throws std::bad_variant_access
\* out of the handler: no result method is called, and the process either
\* terminates or carries on after the unwinding (env.unwinds)
BadVariantAccess(w, env) ==
    [w EXCEPT !.phase = IF env.unwinds THEN "running" ELSE "crashed"]

HandleSetExcludeFromCapture_NoWindowError(w, args, env) ==
    IF args.isMap /\ args.hasExclude
    THEN IF args.type = "bool"
         THEN IF GetMainWindow(w, env) = 0
              THEN Respond(w, Error("NO_WINDOW"))
              ELSE Respond(SetExcludeFromCapture(w, args.value, env), Success(TRUE))
         ELSE BadVariantAccess(w, env)
    ELSE Respond(w, Error("INVALID_ARGS"))

HandleSetExcludeFromCapture(w, args, env) ==
    IF args.isMap /\ args.hasExclude
    THEN IF args.type = "bool"
         THEN Respond(SetExcludeFromCapture(w, args.value, env), Success(TRUE))
         ELSE BadVariantAccess(w, env)
    ELSE Respond(w, Error("INVALID_ARGS"))

HandleMinimizeWindow(w, env) ==
    LET hwnd == GetMainWindow(w, env)
    IN IF hwnd # 0
       THEN Respond([w EXCEPT !.plugin.main_window_handle_ = hwnd,
                              !.os.winState[hwnd] = "minimized",
                              !.obs.hwnd = hwnd,
                              !.ghost.lastMinimized = hwnd],
                    Success(TRUE))
       ELSE Respond(w, Error("NO_WINDOW"))

RestoreTarget_AlwaysLocate(w, env) == GetMainWindow(w, env)

\* main_window_handle_ ? main_window_handle_ : GetMainWindow()
RestoreTarget(w, env) ==
    IF w.plugin.main_window_handle_ # 0
    THEN w.plugin.main_window_handle_
    ELSE GetMainWindow(w, env)

HandleRestoreWindow(w, env) ==
    LET hwnd == RestoreTarget(w, env)
    IN IF hwnd # 0
       THEN Respond([w EXCEPT !.os.winState[hwnd] = "normal",
                              !.os.foreground = hwnd,
                              !.obs.hwnd = hwnd],
                    Success(TRUE))
       ELSE Respond(w, Error("NO_WINDOW"))

HandleMethodCall(w, method, args, env) ==
    CASE method = "isSupported" -> Respond(w, Success(TRUE))
      [] method = "setExcludeFromCapture" -> HandleSetExcludeFromCapture(w, args, env)
      [] method = "showOverlay" -> Respond(Show(w, env.okT, env.okB), Success(TRUE))
      [] method = "hideOverlay" -> Respond(Hide(w), Success(TRUE))
      [] method = "minimizeWindow" -> HandleMinimizeWindow(w, env)
      [] method = "restoreWindow" -> HandleRestoreWindow(w, env)
      [] OTHER -> Respond(w, NotImplemented)

(* ======================= Linux: method_call_cb ========================= *)

LinuxMethods_WithMinimize == {"isSupported", "setExcludeFromCapture", "showOverlay",
                              "hideOverlay", "minimizeWindow"}

\* the names method_call_cb compares against
LinuxMethods == {"isSupported", "setExcludeFromCapture", "showOverlay", "hideOverlay"}

method_call_cb(w, method, args) ==
    IF method \in LinuxMethods
    THEN CASE method = "showOverlay" ->
                Respond(create_border_windows(create_toolbar_window(w)), Success(TRUE))
           [] method = "hideOverlay" ->
                Respond(destroy_overlay_windows(w), Success(TRUE))
           [] OTHER -> Respond(w, Success(TRUE))
    ELSE Respond(w, NotImplemented)

(* ============================ state machine ============================ *)

QuietEnv == [mainWin |-> 0, affOk |-> TRUE, okT |-> TRUE,
             okB |-> [i \in Corners |-> TRUE], unwinds |-> TRUE]

Dispatch(w, method, args, env) ==
    IF w.platform = "windows"
    THEN HandleMethodCall(BeginOp(w, method, args, env), method, args, env)
    ELSE method_call_cb(BeginOp(w, method, args, env), method, args)

GdiNames == {"toolbar_brush_", "green_brush_", "label_font_", "button_font_"}

InitObs == [op |-> "init", args |-> NoArgs,
            prev |-> [op |-> "init", exclude |-> FALSE], mainWin |-> 0, affOk |-> TRUE,
            hwnd |-> 0, preStyle |-> 0, preOrig |-> 0,
            responses |-> <<>>, outbound |-> <<>>,
            created |-> 0, destroyed |-> 0, failed |-> 0,
            gdiCreated |-> 0, gdiDeleted |-> 0]

\* the state after plugin registration; gdi is the set of brushes and fonts
\* the overlay constructor managed to create, styles the windows' styles
InitWithScreen(p, gdi, styles, screen) ==
    /\ platform = p
    /\ phase = "running"
    /\ plugin = [main_window_handle_ |-> 0, original_ex_style_ |-> 0]
    /\ overlay = [toolbar_window_ |-> FALSE, border_windows_ |-> <<>>,
                  toolbar_brush_ |-> "toolbar_brush_" \in gdi,
                  green_brush_ |-> "green_brush_" \in gdi,
                  label_font_ |-> "label_font_" \in gdi,
                  button_font_ |-> "button_font_" \in gdi,
                  classes_registered_ |-> (p = "windows"),
                  instance_ |-> (p = "windows")]
    /\ gtk = [g_channel |-> (p = "linux"), g_toolbar_window |-> FALSE,
              g_border_windows |-> [i \in Corners |-> FALSE]]
    /\ os = [exStyle |-> styles,
             affinity |-> [h \in DOMAIN styles |-> WDA_NONE],
             winState |-> [h \in DOMAIN styles |-> "normal"],
             foreground |-> 0,
             toolbarLive |-> 0,
             borderLive |-> [i \in Corners |-> 0],
             borderPos |-> [i \in Corners |-> <<>>],
             screen |-> screen,
             gdiLive |-> gdi,
             gdiBadDelete |-> FALSE]
    /\ obs = InitObs
    /\ ghost = [createFailed |-> FALSE, lastMinimized |-> 0, gdiAllocated |-> gdi,
                trueRun |-> NoRun, ended |-> NoRun]

\* a primary screen at the origin
DefaultScreen == [x |-> 0, y |-> 0, width |-> 1920, height |-> 1080]

InitWith(p, gdi, styles) == InitWithScreen(p, gdi, styles, DefaultScreen)

\* the top-level windows there are
TopLevel == DOMAIN os.exStyle

\* the Flutter view's own top-level window
ViewWindow == {1}

\* the dispatcher as a whole: every method, every argument shape, one main window
Init ==
    \E p \in {"windows", "linux"}, styles \in [ViewWindow -> InitialExStyles] :
       InitWith(p, IF p = "windows" THEN GdiNames ELSE {}, styles)

(* ------------------------------ actions -------------------------------- *)

IsSupported(args) ==
    /\ phase = "running"
    /\ SetWorld(Dispatch(World, "isSupported", args, QuietEnv))

\* ghost.trueRun: the run of successful setExcludeFromCapture(true) calls on
\* one window that began with the window layered (the window, its style
\* before the run, the number of calls, counted up to MaxRun);
\* ghost.ended: the run a successful setExcludeFromCapture(false) on that
\* window has just ended
TrackRun(before, after) ==
    LET o == after.obs
        run == before.ghost.trueRun
        applied == /\ after.platform = "windows"
                   /\ CarriesBoolExclude(o.args)
                   /\ o.hwnd # 0
                   /\ o.affOk
        newRun == IF applied /\ o.args.value
                  THEN IF run.n > 0 /\ run.hwnd = o.hwnd
                       THEN [run EXCEPT !.n = IF @ < MaxRun THEN @ + 1 ELSE @]
                       ELSE IF HasLayered(o.preStyle)
                            THEN [hwnd |-> o.hwnd, style |-> o.preStyle, n |-> 1]
                            ELSE NoRun
                  ELSE NoRun
        ended == IF applied /\ ~o.args.value /\ run.n > 0 /\ run.hwnd = o.hwnd
                 THEN run
                 ELSE NoRun
    IN [after EXCEPT !.ghost.trueRun = newRun, !.ghost.ended = ended]

SetExcludeFromCaptureCall(args) ==
    /\ phase = "running"
    \* the OS is consulted only on the paths that reach it
    /\ \E mw \in (IF CarriesBoolExclude(args) /\ platform = "windows"
                  THEN {0} \cup TopLevel ELSE {0}),
          ok \in (IF CarriesBoolExclude(args) /\ platform = "windows"
                  THEN BOOLEAN ELSE {TRUE}),
          uw \in (IF args.isMap /\ args.hasExclude /\ args.type # "bool"
                     /\ platform = "windows"
                  THEN BOOLEAN ELSE {TRUE}) :
          SetWorld(TrackRun(World,
                     Dispatch(World, "setExcludeFromCapture", args,
                              [QuietEnv EXCEPT !.mainWin = mw, !.affOk = ok, !.unwinds = uw])))

\* outcomes of the CreateWindowExW calls of one Show: the toolbar's and each corner's
AllOutcomes == [okT : BOOLEAN, okB : [Corners -> BOOLEAN]]

\* every creation succeeds, or every creation fails
UniformOutcomes == {[okT |-> b, okB |-> [i \in Corners |-> b]] : b \in BOOLEAN}

ShowOverlay(args, outcomes) ==
    /\ phase = "running"
    /\ \E o \in outcomes :
          SetWorld(Dispatch(World, "showOverlay", args,
                            [QuietEnv EXCEPT !.okT = o.okT, !.okB = o.okB]))

HideOverlay(args) ==
    /\ phase = "running"
    /\ SetWorld(Dispatch(World, "hideOverlay", args, QuietEnv))

MinimizeWindow(args) ==
    /\ phase = "running"
    /\ \E mw \in (IF platform = "windows" THEN {0} \cup TopLevel ELSE {0}) :
          SetWorld(Dispatch(World, "minimizeWindow", args, [QuietEnv EXCEPT !.mainWin = mw]))

RestoreWindow(args) ==
    /\ phase = "running"
    /\ \E mw \in (IF platform = "windows" THEN {0} \cup TopLevel ELSE {0}) :
          SetWorld(Dispatch(World, "restoreWindow", args, [QuietEnv EXCEPT !.mainWin = mw]))

UnknownMethod(args) ==
    /\ phase = "running"
    /\ SetWorld(Dispatch(World, "unknownMethod", args, QuietEnv))

\* the user activates the stop control embedded in the toolbar window
StopClicked ==
    /\ phase = "running"
    /\ <<"toolbar", 0>> \in Held
    /\ LET w == BeginOp(World, "stopClicked", NoArgs, QuietEnv)
       IN SetWorld(IF platform = "windows"
                   THEN ToolbarWndProc_WM_COMMAND(w)
                   ELSE on_stop_button_clicked(w))

\* a paint event reaches the toolbar's stop button (WM_DRAWITEM)
DrawItem ==
    /\ phase = "running"
    /\ platform = "windows"
    /\ overlay.toolbar_window_
    /\ SetWorld(ToolbarWndProc_WM_DRAWITEM(BeginOp(World, "drawItem", NoArgs, QuietEnv)))

\* a paint event reaches a border window (WM_PAINT)
PaintBorder ==
    /\ phase = "running"
    /\ platform = "windows"
    /\ overlay.border_windows_ # <<>>
    /\ SetWorld(BorderWndProc_WM_PAINT(BeginOp(World, "paintBorder", NoArgs, QuietEnv)))

\* the host destroys the plugin: ~ScreenSharePlugin resets overlay_
Teardown ==
    /\ phase = "running"
    /\ platform = "windows"
    /\ SetWorld(OverlayDestructor(BeginOp(World, "teardown", NoArgs, QuietEnv)))

Next ==
    \/ \E a \in IgnoredArgValues : IsSupported(a)
    \/ \E a \in ArgValues : SetExcludeFromCaptureCall(a)
    \/ \E a \in IgnoredArgValues : ShowOverlay(a, UniformOutcomes)
    \/ \E a \in IgnoredArgValues : HideOverlay(a)
    \/ \E a \in IgnoredArgValues : MinimizeWindow(a)
    \/ \E a \in IgnoredArgValues : RestoreWindow(a)
    \/ \E a \in IgnoredArgValues : UnknownMethod(a)
    \/ StopClicked
    \/ DrawItem
    \/ PaintBorder
    \/ Teardown

Spec == Init /\ [][Next]_vars

\* the overlay controller alone: Show, Hide, the stop control, paint events and
\* teardown, whichever brushes and fonts the constructor managed to create
InitOverlay ==
    \/ \E gdi \in SUBSET GdiNames :
          InitWith("windows", gdi, [h \in ViewWindow |-> WS_EX_TOPMOST])
    \/ InitWith("linux", {}, [h \in ViewWindow |-> WS_EX_TOPMOST])

NextOverlay ==
    \/ ShowOverlay(NoArgs, AllOutcomes)
    \/ HideOverlay(NoArgs)
    \/ StopClicked
    \/ DrawItem
    \/ PaintBorder
    \/ Teardown

SpecOverlay == InitOverlay /\ [][NextOverlay]_vars

\* the capture-exclusion controller alone, over the windows GetMainWindow
\* may come back with when it falls back to GetActiveWindow
InitCapture ==
    \E p \in {"windows", "linux"}, styles \in [Hwnds -> InitialExStyles] :
       InitWith(p, IF p = "windows" THEN GdiNames ELSE {}, styles)

NextCapture == \E a \in ArgValues : SetExcludeFromCaptureCall(a)

SpecCapture == InitCapture /\ [][NextCapture]_vars

\* minimizeWindow and restoreWindow alone
InitWindow ==
    \E p \in {"windows", "linux"} :
       InitWith(p, IF p = "windows" THEN GdiNames ELSE {}, [h \in Hwnds |-> WS_EX_TOPMOST])

NextWindow ==
    \/ \E a \in IgnoredArgValues : MinimizeWindow(a)
    \/ \E a \in IgnoredArgValues : RestoreWindow(a)

SpecWindow == InitWindow /\ [][NextWindow]_vars

\* Show and Hide on a primary screen of any geometry
Screens ==
    [x : 0..MaxOrigin, y : 0..MaxOrigin,
     width : cornerSize..(cornerSize + MaxExtent),
     height : cornerSize..(cornerSize + MaxExtent)]

InitGeometry ==
    \E p \in {"windows", "linux"}, screen \in Screens :
       InitWithScreen(p, IF p = "windows" THEN GdiNames ELSE {},
                      [h \in ViewWindow |-> WS_EX_TOPMOST], screen)

NextGeometry ==
    \/ ShowOverlay(NoArgs, AllOutcomes)
    \/ HideOverlay(NoArgs)

SpecGeometry == InitGeometry /\ [][NextGeometry]_vars

(* =============================== claims ================================ *)

C3_ShowHideReleasesAll ==
    [][(obs.op = "showOverlay" /\ obs'.op = "hideOverlay")
         => (Held' = {} /\ os'.gdiLive = {})]_vars

\* C3 (amended): Show immediately followed by Hide leaves the held window set
\* empty and every graphics resource allocated while painting released; the
\* brushes and fonts the controller created at construction stay allocated.
C3_ShowHideKeepsControllerGdi ==
    [][(obs.op = "showOverlay" /\ obs'.op = "hideOverlay")
         => (Held' = {} /\ os'.gdiLive = PersistentGdi(overlay'))]_vars

C3_Witness ==
    /\ obs.op = "hideOverlay"
    /\ obs.prev.op = "showOverlay"
    /\ obs.destroyed = 5
    /\ Held = {}
    /\ os.gdiLive = GdiNames

\* C4: Hide on a controller that holds no window (never shown, or already
\* hidden) destroys no window, changes no state and answers true.
C4_HideWhenHiddenIsNoOp ==
    [][(Held = {} /\ obs'.op = "hideOverlay")
         => (/\ obs'.destroyed = 0
             /\ UNCHANGED <<platform, phase, plugin, overlay, gtk, os>>
             /\ obs'.responses = <<Success(TRUE)>>)]_vars

C4_Witness ==
    /\ obs.op = "hideOverlay"
    /\ obs.prev.op = "init"
    /\ obs.destroyed = 0
    /\ obs.responses = <<Success(TRUE)>>

C6_InvalidArgs ==
    [][(obs'.op = "setExcludeFromCapture" /\ ~CarriesBoolExclude(obs'.args))
         => (obs'.responses = <<Error("INVALID_ARGS")>> /\ UNCHANGED <<os, plugin>>)]_vars

\* the names the claim counts as unrecognized on each implementation
C7_Unrecognized ==
    IF platform = "linux"
    THEN {"minimizeWindow", "restoreWindow", "unknownMethod"}
    ELSE {"unknownMethod"}

\* C7: a call of a method name the implementation does not recognize answers
\* "not implemented", exactly once, and changes no overlay or capture state;
\* on Linux minimizeWindow and restoreWindow are such names.
C7_UnknownIsNotImplemented ==
    [][(obs'.op \in C7_Unrecognized)
         => (/\ obs'.responses = <<NotImplemented>>
             /\ UNCHANGED <<platform, phase, plugin, overlay, gtk, os>>)]_vars

C7_Witness ==
    /\ platform = "linux"
    /\ obs.op = "minimizeWindow"
    /\ obs.responses = <<NotImplemented>>

\* C8: every method call, whatever its name and arguments, has produced
\* exactly one response when the handler returns.
C8_ExactlyOneResponse == obs.op \in MethodNames => Len(obs.responses) = 1

\* C9: an activation of the stop control performs Hide and then emits exactly
\* one onStopSharingRequested without payload: the held window set is empty
\* when the notification is emitted.
C9_StopHidesThenNotifies ==
    obs.op = "stopClicked" => (obs.outbound = <<StopNotification({})>> /\ Held = {})

C9_Witness ==
    /\ obs.op = "stopClicked"
    /\ obs.destroyed = 5
    /\ Len(obs.outbound) = 1

\* C10: on Windows, once minimizeWindow has succeeded every restoreWindow
\* restores and focuses the window most recently minimized and answers true;
\* minimizeWindow answers NO_WINDOW exactly when no main window is located;
\* restoreWindow answers NO_WINDOW only when no window was ever minimized and
\* none is located.
C10_RestoreMostRecentlyMinimized ==
    [][platform' = "windows" =>
        /\ (obs'.op = "restoreWindow" /\ ghost.lastMinimized # 0)
             => (/\ obs'.responses = <<Success(TRUE)>>
                 /\ obs'.hwnd = ghost.lastMinimized
                 /\ os'.winState[ghost.lastMinimized] = "normal"
                 /\ os'.foreground = ghost.lastMinimized)
        /\ (obs'.op = "minimizeWindow")
             => ((obs'.responses = <<Error("NO_WINDOW")>>) <=> (obs'.mainWin = 0))
        /\ (obs'.op = "minimizeWindow" /\ obs'.mainWin # 0)
             => (/\ obs'.responses = <<Success(TRUE)>>
                 /\ ghost'.lastMinimized = obs'.mainWin
                 /\ os'.winState[obs'.mainWin] = "minimized")
        /\ (obs'.op = "restoreWindow" /\ obs'.responses = <<Error("NO_WINDOW")>>)
             => (ghost.lastMinimized = 0 /\ obs'.mainWin = 0)]_vars

\* a restore while another window (or none) is the one GetMainWindow would find
C10_Witness ==
    /\ platform = "windows"
    /\ obs.op = "restoreWindow"
    /\ obs.prev.op = "minimizeWindow"
    /\ ghost.lastMinimized # 0
    /\ obs.mainWin # ghost.lastMinimized
    /\ obs.hwnd = ghost.lastMinimized
    /\ os.foreground = ghost.lastMinimized

\* C11 (as stated): for every primary-screen geometry (origin, width W,
\* height H) the corner windows Show creates sit at (0,0), (W-S,0), (0,H-S)
\* and (W-S,H-S), in corner-index order, on both implementations.
C11_CornersAtScreenCorners ==
    \A i \in Corners :
       <<"border", i>> \in Held =>
          os.borderPos[i] =
             << IF i \in {1, 3} THEN os.screen.width - 60 ELSE 0,
                IF i \in {2, 3} THEN os.screen.height - 60 ELSE 0 >>

\* C11 (amended): the corner windows Show creates sit at (X,Y), (X+W-S,Y),
\* (X,Y+H-S) and (X+W-S,Y+H-S), in corner-index order, where (X,Y) is (0,0)
\* on Windows and the primary monitor's origin on Linux.
C11_CornersFromMonitorOrigin ==
    LET X == IF platform = "linux" THEN os.screen.x ELSE 0
        Y == IF platform = "linux" THEN os.screen.y ELSE 0
    IN \A i \in Corners :
          <<"border", i>> \in Held =>
             os.borderPos[i] =
                << X + (IF i \in {1, 3} THEN os.screen.width - 60 ELSE 0),
                   Y + (IF i \in {2, 3} THEN os.screen.height - 60 ELSE 0) >>

\* Show on a Linux primary monitor that is not at the origin
C11_Witness ==
    /\ platform = "linux"
    /\ obs.op = "showOverlay"
    /\ obs.created = 5
    /\ os.screen.x # 0
    /\ os.screen.y # 0
    /\ os.screen.width # os.screen.height
    /\ os.borderPos[3] = <<os.screen.x + os.screen.width - 60,
                           os.screen.y + os.screen.height - 60>>

\* C12: whatever Show, Hide, stop-control activations and paint events came
\* before, when teardown completes every brush, font and pen the overlay
\* controller allocated has been released exactly once: none is live, none was
\* released twice, and before teardown none of the controller's own was released.
C12_GdiReleasedExactlyOnce ==
    /\ ~os.gdiBadDelete
    /\ os.gdiLive \subseteq ghost.gdiAllocated
    /\ phase = "running" => os.gdiLive = ghost.gdiAllocated
    /\ phase = "destroyed" =>
          (os.gdiLive = {} /\ obs.gdiDeleted = Cardinality(ghost.gdiAllocated))

\* torn down while the overlay was shown
C12_Witness ==
    /\ phase = "destroyed"
    /\ obs.op = "teardown"
    /\ obs.destroyed = 5
    /\ obs.gdiDeleted = 4
    /\ os.gdiLive = {}

\* the overlay windows that exist are exactly those a held handle refers to
C13_LiveMatchesHeld ==
    /\ os.toolbarLive = (IF <<"toolbar", 0>> \in Held THEN 1 ELSE 0)
    /\ \A i \in Corners :
          os.borderLive[i] = (IF <<"border", i>> \in Held THEN 1 ELSE 0)

\* C13: whichever window creations fail during Show, showOverlay answers
\* true and the held set is exactly the windows that were created; the Hide
\* that follows destroys each held window once, no absent one, and leaves the
\* held set empty.
C13_ShowToleratesCreationFailures ==
    [][/\ (obs'.op = "showOverlay")
            => (/\ obs'.responses = <<Success(TRUE)>>
                /\ C13_LiveMatchesHeld'
                /\ Cardinality(Held') = Cardinality(Held) + obs'.created)
       /\ (obs'.op = "hideOverlay")
            => (/\ obs'.destroyed = Cardinality(Held)
                /\ Held' = {}
                /\ C13_LiveMatchesHeld')]_vars

\* a Hide right after a Show that created only some of the five windows
C13_Witness ==
    /\ platform = "windows"
    /\ obs.op = "hideOverlay"
    /\ obs.prev.op = "showOverlay"
    /\ obs.destroyed \in 1..4
    /\ Held = {}
    /\ os.toolbarLive = 0
    /\ \A i \in Corners : os.borderLive[i] = 0

\* C14: a setExcludeFromCapture call with a boolean `exclude` answers success
\* true, never an error, also when no main window is located or the
\* display-affinity call fails; on Linux it changes no state at all.
C14_ExcludeAlwaysSucceeds ==
    [][(obs'.op = "setExcludeFromCapture" /\ CarriesBoolExclude(obs'.args))
         => (/\ obs'.responses = <<Success(TRUE)>>
             /\ platform = "linux" => UNCHANGED <<phase, plugin, overlay, gtk, os>>)]_vars

\* no main window was located, and the call still answered true
C14_Witness ==
    /\ platform = "windows"
    /\ obs.op = "setExcludeFromCapture"
    /\ CarriesBoolExclude(obs.args)
    /\ obs.mainWin = 0
    /\ obs.hwnd = 0
    /\ obs.responses = <<Success(TRUE)>>

\* C15: when setExcludeFromCapture(true) strips the layered style and the
\* display-affinity call then fails, the window's extended style at return is
\* its style before the call.
C15_StripUndoneOnFailure ==
    (/\ obs.op = "setExcludeFromCapture"
     /\ obs.args = ExcludeArg(TRUE)
     /\ obs.hwnd # 0
     /\ HasLayered(obs.preStyle)
     /\ ~obs.affOk)
      => os.exStyle[obs.hwnd] = obs.preStyle

C15_Witness ==
    /\ obs.op = "setExcludeFromCapture"
    /\ obs.args = ExcludeArg(TRUE)
    /\ obs.hwnd # 0
    /\ HasLayered(obs.preStyle)
    /\ ~obs.affOk
    /\ os.affinity[obs.hwnd] = WDA_NONE
    /\ HasLayered(os.exStyle[obs.hwnd])

\* C16: between calls the saved style is non-zero only while a window has its
\* layered style stripped by the workaround, and a call that writes the saved
\* style back on rollback leaves the saved style zero.
C16_SavedStyleOnlyWhileStripped ==
    /\ plugin.original_ex_style_ # 0
         => \E h \in TopLevel : os.exStyle[h] = StripLayered(plugin.original_ex_style_)
    /\ (/\ obs.op = "setExcludeFromCapture"
        /\ obs.args = ExcludeArg(TRUE)
        /\ obs.hwnd # 0
        /\ HasLayered(obs.preStyle)
        /\ ~obs.affOk)
         => plugin.original_ex_style_ = 0

\* C17: when setExcludeFromCapture(true) is applied successfully to a layered
\* main window, the window carries the layered style again when the call returns.
C17_LayeredRestoredAfterExclude ==
    (/\ obs.op = "setExcludeFromCapture"
     /\ obs.args = ExcludeArg(TRUE)
     /\ obs.hwnd # 0
     /\ HasLayered(obs.preStyle)
     /\ obs.affOk)
      => HasLayered(os.exStyle[obs.hwnd])

\* C18: counting every overlay window created and not yet destroyed, held or
\* not, there is at most one toolbar window and at most one border window for
\* each of the four corner indices.
C18_AtMostOneOfEach ==
    /\ os.toolbarLive <= 1
    /\ \A i \in Corners : os.borderLive[i] <= 1

\* a Show on an overlay already shown: all five windows alive, none created
C18_Witness ==
    /\ obs.op = "showOverlay"
    /\ obs.created = 0
    /\ obs.failed = 0
    /\ os.toolbarLive = 1
    /\ \A i \in Corners : os.borderLive[i] = 1

\* C19: after n >= 1 successful setExcludeFromCapture(true) calls in a row on a
\* main window that was layered before the first of them, one successful
\* setExcludeFromCapture(false) on that window leaves its extended style equal
\* to the style before the first call and the saved style zero.
C19_RepeatedExcludeKeepsSavedStyle ==
    ghost.ended.n >= 1
      => /\ os.exStyle[ghost.ended.hwnd] = ghost.ended.style
         /\ plugin.original_ex_style_ = 0

\* the run that ended had more than one call
C19_Witness ==
    /\ ghost.ended.n >= 2
    /\ obs.args = ExcludeArg(FALSE)
    /\ HasLayered(os.exStyle[ghost.ended.hwnd])

\* C20: the onStopSharingRequested notification is emitted only by the
\* stop-control handler; no inbound method call and no teardown emits it.
C20_NotifyOnlyOnStop ==
    obs.outbound # <<>> => obs.op = "stopClicked"

C20_Witness ==
    /\ platform = "linux"
    /\ obs.op = "stopClicked"
    /\ obs.outbound # <<>>
    /\ Held = {}

====
